---------------------------- MODULE Spec2Model ----------------------------
(***************************************************************************)
(* Orchestrator (app/main.py), its two collaborators (app/face_swapper.py, *)
(* app/imagen.py) and the Callback Receiver (app/callback_api.py).         *)
(*                                                                         *)
(* The orchestrator is one asyncio event loop.  A coroutine runs on the    *)
(* loop's only thread from one await to the next; the collaborator calls   *)
(* are plain (synchronous) calls, so a Job keeps the thread from the start *)
(* of its background task up to `await client.post`.  `running` is the Job *)
(* that holds the thread (0: the loop is idle).                            *)
(***************************************************************************)
EXTENDS Integers, FiniteSets, TLC

\* Number of submissions in one run of the process.
MaxJobs == 2

Jobs == 1..MaxJobs

\* Python's None for an optional str; 0 for an absent request_id.
None == "<None>"
NoId == 0

---------------------------------------------------------------------------
(* Images, as the code tells them apart.                                   *)

\* b64decode raises on it
BADB64 == "BADB64"
\* decodes from base64, cv2.imdecode returns None
NOTIMG == "NOTIMG"
\* a picture in which FaceAnalysis.get finds no face
NOFACE == "NOFACE"
\* a picture with a face
FACE == "FACE"
\* what generate_images produced, with and without a detectable face
GEN_FACE == "GEN_FACE"
GEN_NOFACE == "GEN_NOFACE"

B64Valid(img) == img /= BADB64
Decodes(img) == img \in {NOFACE, FACE, GEN_FACE, GEN_NOFACE}
Faces(img) == IF img \in {FACE, GEN_FACE} THEN 1 ELSE 0

\* result of swapper.get(...) re-encoded: never the empty string
Swapped(src, tgt) == IF tgt = GEN_FACE THEN "SWAP_ON_GEN" ELSE "SWAP_ON_TARGET"

---------------------------------------------------------------------------
(* face_swapper.py                                                         *)

\* The messages of the ValueErrors, their Turkish letters written in ASCII.
E_B64 == "Base64 decode hatasi: Incorrect padding"
E_SRC_DECODE == "Kaynak resim base64'ten decode edilemedi!"
E_TGT_DECODE == "Hedef resim base64'ten decode edilemedi!"
E_SRC_NOFACE == "Kaynak resimde yuz bulunamadi!"
E_TGT_NOFACE == "Hedef resimde yuz bulunamadi!"
\* raised by FaceAnalysis(...)/prepare, and by gdown/get_model
E_FS_ANALYSIS == "buffalo_l could not be loaded"
E_FS_MODEL == "inswapper_128.onnx could not be loaded"

\* FaceSwapProcessor.__init__
FaceSwapProcessor == [app |-> FALSE, swapper |-> FALSE, is_initialized |-> FALSE, inits |-> 0]

\* What the environment lets initialize_face_swap do.
FsInitOutcomes == {"ok", "analysis_fails", "model_fails"}

Return(obj, value) == [obj |-> obj, raised |-> FALSE, value |-> value]
Raise(obj, msg) == [obj |-> obj, raised |-> TRUE, value |-> msg]

\* The flag set on entry, before anything is loaded.
initialize_face_swap_flag_first(self, env) ==
  LET s0 == [self EXCEPT !.inits = @ + 1, !.is_initialized = TRUE] IN
  IF env = "analysis_fails" THEN Raise(s0, E_FS_ANALYSIS)
  ELSE LET s1 == [s0 EXCEPT !.app = TRUE] IN
       IF env = "model_fails" THEN Raise(s1, E_FS_MODEL)
       ELSE Return([s1 EXCEPT !.swapper = TRUE], "")

\* initialize_face_swap: `inits` counts the runs of the routine.
initialize_face_swap(self, env) ==
  LET s0 == [self EXCEPT !.inits = @ + 1] IN
  IF env = "analysis_fails" THEN Raise(s0, E_FS_ANALYSIS)
  ELSE LET s1 == [s0 EXCEPT !.app = TRUE] IN
       IF env = "model_fails" THEN Raise(s1, E_FS_MODEL)
       ELSE Return([s1 EXCEPT !.swapper = TRUE, !.is_initialized = TRUE], "")

\* The models loaded on every call, initialized or not.
face_swap_function_always_init(self, src, tgt, env) ==
  LET i == initialize_face_swap(self, env)
      s == i.obj
  IN IF i.raised THEN i
     ELSE IF ~B64Valid(src) \/ ~B64Valid(tgt) THEN Raise(s, E_B64)
     ELSE IF ~Decodes(src) THEN Raise(s, E_SRC_DECODE)
     ELSE IF ~Decodes(tgt) THEN Raise(s, E_TGT_DECODE)
     ELSE IF Faces(src) = 0 THEN Raise(s, E_SRC_NOFACE)
     ELSE IF Faces(tgt) = 0 THEN Raise(s, E_TGT_NOFACE)
     ELSE Return(s, Swapped(src, tgt))

\* face_swap_function(source_image_base64, target_image_base64)
face_swap_function(self, src, tgt, env) ==
  LET i == IF ~self.is_initialized THEN initialize_face_swap(self, env)
           ELSE Return(self, "")
      s == i.obj
  IN IF i.raised THEN i
     ELSE IF ~B64Valid(src) \/ ~B64Valid(tgt) THEN Raise(s, E_B64)
     ELSE IF ~Decodes(src) THEN Raise(s, E_SRC_DECODE)
     ELSE IF ~Decodes(tgt) THEN Raise(s, E_TGT_DECODE)
     ELSE IF Faces(src) = 0 THEN Raise(s, E_SRC_NOFACE)
     ELSE IF Faces(tgt) = 0 THEN Raise(s, E_TGT_NOFACE)
     ELSE Return(s, Swapped(src, tgt))

---------------------------------------------------------------------------
(* imagen.py                                                               *)

E_IG_INIT == "Vertex AI could not be initialized"
E_GENERATION == "image generation failed"

\* ImagenGenerator.__init__
ImagenGenerator == [generation_model |-> FALSE, is_initialized |-> FALSE, inits |-> 0]

IgInitOutcomes == {"ok", "init_fails"}
\* generate_images: an image, or a remote failure
GenOutcomes == {GEN_FACE, GEN_NOFACE, "generation_fails"}

\* initialize
initialize(self, env) ==
  IF self.is_initialized THEN Return(self, "")
  ELSE LET s0 == [self EXCEPT !.inits = @ + 1] IN
       IF env = "init_fails" THEN Raise(s0, E_IG_INIT)
       ELSE Return([s0 EXCEPT !.generation_model = TRUE, !.is_initialized = TRUE], "")

\* generate_image_from_test
generate_image_from_test(self, env, gen) ==
  LET i == IF ~self.is_initialized THEN initialize(self, env) ELSE Return(self, "")
  IN IF i.raised THEN i
     ELSE IF gen = "generation_fails" THEN Raise(i.obj, E_GENERATION)
     ELSE Return(i.obj, gen)

---------------------------------------------------------------------------
(* main.py: requests, results, configuration                               *)

\* CALLBACK_API_URL, with the environment variable unset
CALLBACK_API_URL == "http://127.0.0.1:8000/callback"

TEST_IMAGE == "/process-test-image"
FACE_SWAP == "/process-face-swap"

\* callback_url: str | None.  None, the empty string, and a caller's URL.
CallerUrls == {"http://caller.example/hook"}
CallbackUrls == {None, ""} \cup CallerUrls

\* (source, target) pairs, one for every way through face_swap_function
SwapPairs == {<<BADB64, FACE>>, <<NOTIMG, FACE>>, <<FACE, NOTIMG>>,
              <<NOFACE, FACE>>, <<FACE, NOFACE>>, <<FACE, FACE>>}

\* FaceSwapRequest
FaceSwapRequest ==
  {[source_image_base64 |-> p[1], target_image_base64 |-> p[2], callback_url |-> u] :
     p \in SwapPairs, u \in CallbackUrls}

\* TestImageRequest; the test attributes only feed the prompt
TestImageRequest ==
  {[source_face_image_base64 |-> s, callback_url |-> u] :
     s \in {NOFACE, FACE}, u \in CallbackUrls}

NoPayload == [callback_url |-> None]

\* TestImageResult(...).model_dump()
TestImageResult(status, generated, swapped, request_id, error) ==
  [status |-> status, generated_image_base64 |-> generated,
   swapped_image_base64 |-> swapped, request_id |-> request_id, error |-> error]

\* FaceSwapResult(...).model_dump()
FaceSwapResult(status, swapped, request_id, error) ==
  [status |-> status, swapped_image_base64 |-> swapped,
   request_id |-> request_id, error |-> error]

NoResult == [status |-> None]
NoResponse == [message |-> None, request_id |-> NoId]
NoPost == [url |-> None, json |-> NoResult]
NoArgs == [source |-> None, target |-> None]

\* `b if a is None else a`: only None falls back
PyOrNoneOnly(a, b) == IF a = None THEN b ELSE a

\* `a or b` on an optional str: None and "" are falsy
PyOr(a, b) == IF a = None \/ a = "" THEN b ELSE a

\* str(uuid.uuid4()): the n-th identifier drawn, never drawn before
uuid4(n) == n + 1

\* How a POST can end: client.post returns a response whatever its status
\* code, and raises on a transport error or after the 30 s timeout.
PostOutcomes == {"2xx", "non2xx", "network_error", "timeout"}
PostRaises(o) == o \in {"network_error", "timeout"}

VARIABLES
  http,          \* the submission's HTTP exchange: none, arrived, returned, responded
  endpoint,      \* the path it was sent to
  payload,       \* its body
  uuids,         \* identifiers drawn so far
  rid,           \* request_id of the Job
  returned,      \* what the endpoint function returned
  response,      \* what the caller received
  task,          \* the background task: none, attached, ready, running, done
  running,       \* the Job holding the event loop's thread, 0 when idle
  pc,            \* the Job's state
  callback_url,  \* local of the background procedure
  generated,     \* local generated_image_base64
  result,        \* local result
  exc,           \* str(e) of the exception the procedure caught
  built,         \* Results built for the Job
  gen_calls,     \* generate_image_from_test calls made for the Job
  swap_calls,    \* face_swap_function calls made for the Job
  swap_args,     \* source and target the Job's face_swap_function call was given
  posts,         \* client.post calls made for the Job
  posted,        \* url and json of the Job's POST
  post,          \* how the POST ended
  escaped,       \* Jobs whose background task let an exception out
  face_swapper_instance,
  imagen_generator_instance

\* callback_api.py runs as a process of its own
VARIABLES
  rx_body,           \* the JSON body a client sends to the receiver's paths
  rx_reply,          \* the reply of each path to that body, once POSTed there
  rx_face_swapper    \* the receiver's own face_swapper_instance

rxVars == <<rx_body, rx_reply, rx_face_swapper>>

reqVars == <<http, endpoint, payload, uuids, rid, returned, response>>
jobVars == <<pc, callback_url, generated, result, exc, built, gen_calls, swap_calls,
             swap_args>>
postVars == <<posts, posted, post, escaped>>
collabVars == <<face_swapper_instance, imagen_generator_instance>>
orchVars == <<reqVars, task, running, jobVars, postVars, collabVars>>

InitOrch ==
  /\ http = [k \in Jobs |-> "none"]
  /\ endpoint = [k \in Jobs |-> None]
  /\ payload = [k \in Jobs |-> NoPayload]
  /\ uuids = 0
  /\ rid = [k \in Jobs |-> NoId]
  /\ returned = [k \in Jobs |-> NoResponse]
  /\ response = [k \in Jobs |-> NoResponse]
  /\ task = [k \in Jobs |-> "none"]
  /\ running = 0
  /\ pc = [k \in Jobs |-> "none"]
  /\ callback_url = [k \in Jobs |-> None]
  /\ generated = [k \in Jobs |-> None]
  /\ result = [k \in Jobs |-> NoResult]
  /\ exc = [k \in Jobs |-> None]
  /\ built = [k \in Jobs |-> 0]
  /\ gen_calls = [k \in Jobs |-> 0]
  /\ swap_calls = [k \in Jobs |-> 0]
  /\ swap_args = [k \in Jobs |-> NoArgs]
  /\ posts = [k \in Jobs |-> 0]
  /\ posted = [k \in Jobs |-> NoPost]
  /\ post = [k \in Jobs |-> "none"]
  /\ escaped = {}
  /\ face_swapper_instance = FaceSwapProcessor
  /\ imagen_generator_instance = ImagenGenerator

---------------------------------------------------------------------------
(* main.py: the two endpoints                                              *)

M_TEST_IMAGE == "Request received. Test image generation and face swap will continue in background."
M_FACE_SWAP == "Request received. Face swap processing will continue in background."

\* A client sends a submission; it waits at the socket until the loop runs
\* its endpoint function.  Slots are filled in order of arrival.
Arrive(k) ==
  /\ http[k] = "none"
  /\ k > 1 => http[k - 1] /= "none"
  /\ \E e \in {TEST_IMAGE, FACE_SWAP} :
       \E b \in (IF e = TEST_IMAGE THEN TestImageRequest ELSE FaceSwapRequest) :
         /\ endpoint' = [endpoint EXCEPT ![k] = e]
         /\ payload' = [payload EXCEPT ![k] = b]
  /\ http' = [http EXCEPT ![k] = "arrived"]
  /\ UNCHANGED <<uuids, rid, returned, response, task, running, jobVars, postVars, collabVars, rxVars>>

\* asyncio.create_task(...): the task is runnable at once
create_task(k) == [task EXCEPT ![k] = "ready"]

\* background_tasks.add_task(...): the task is attached to the response and
\* is run once the response has been sent
add_task(k) == [task EXCEPT ![k] = "attached"]

\* The body of an endpoint function: draw the id, add the task, return.
Endpoint(k, message) ==
  /\ running = 0
  /\ http[k] = "arrived"
  /\ uuids' = uuids + 1
  /\ rid' = [rid EXCEPT ![k] = uuid4(uuids)]
  /\ task' = add_task(k)
  /\ returned' = [returned EXCEPT ![k] = [message |-> message, request_id |-> uuid4(uuids)]]
  /\ http' = [http EXCEPT ![k] = "returned"]
  /\ pc' = [pc EXCEPT ![k] = "Received"]
  /\ UNCHANGED <<endpoint, payload, response, running, callback_url, generated, result,
                 exc, built, gen_calls, swap_calls, swap_args, postVars, collabVars,
                 rxVars>>

process_test_image(k) == endpoint[k] = TEST_IMAGE /\ Endpoint(k, M_TEST_IMAGE)

process_face_swap_endpoint(k) == endpoint[k] = FACE_SWAP /\ Endpoint(k, M_FACE_SWAP)

\* The framework sends what the endpoint function returned, and only then
\* runs the tasks attached to the response.
SendResponse(k) ==
  /\ running = 0
  /\ http[k] = "returned"
  /\ response' = [response EXCEPT ![k] = returned[k]]
  /\ http' = [http EXCEPT ![k] = "responded"]
  /\ task' = [task EXCEPT ![k] = IF @ = "attached" THEN "ready" ELSE @]
  /\ pc' = [pc EXCEPT ![k] = IF @ = "Received" THEN "Dispatched" ELSE @]
  /\ UNCHANGED <<endpoint, payload, uuids, rid, returned, running, callback_url, generated,
                 result, exc, built, gen_calls, swap_calls, swap_args, postVars,
                 collabVars, rxVars>>

---------------------------------------------------------------------------
(* main.py: the two background procedures                                  *)

\* callback_url = payload.callback_url or CALLBACK_API_URL
CallbackUrlOf(k) == PyOr(payload[k].callback_url, CALLBACK_API_URL)

\* The Results with a field left to its default or not cleared.
TestImageSuccessNoGenerated(k, swapped) == TestImageResult("success", "", swapped, rid[k], None)
TestImageFailedKeepsGenerated(k, e) ==
  TestImageResult("failed", IF generated[k] = None THEN "" ELSE generated[k], "", rid[k], e)

\* The Result given the id drawn last in the process, not the Job's own.
FaceSwapSuccessLastId(k, swapped) == FaceSwapResult("success", swapped, uuids, None)

\* The Results the procedures build.
TestImageSuccess(k, swapped) == TestImageResult("success", generated[k], swapped, rid[k], None)
TestImageFailed(k, e) == TestImageResult("failed", "", "", rid[k], e)
FaceSwapSuccess(k, swapped) == FaceSwapResult("success", swapped, rid[k], None)
FaceSwapFailed(k, e) == FaceSwapResult("failed", "", rid[k], e)

\* The swap called with the two images in each other's place.
TI_SwapArgsReversed(k) ==
  [source |-> generated[k], target |-> payload[k].source_face_image_base64]

\* face_swap_function(source_image_base64=..., target_image_base64=...):
\* the arguments each procedure gives it
TI_SwapArgs(k) ==
  [source |-> payload[k].source_face_image_base64, target |-> generated[k]]
FS_SwapArgs(k) ==
  [source |-> payload[k].source_image_base64, target |-> payload[k].target_image_base64]

\* The procedure started on a thread of its own, as a plain function given
\* to add_task is, whether or not the loop's thread is taken.
BeginInThreadPool(k, first) ==
  /\ task[k] = "ready"
  /\ task' = [task EXCEPT ![k] = "running"]
  /\ running' = k
  /\ callback_url' = [callback_url EXCEPT ![k] = CallbackUrlOf(k)]
  /\ pc' = [pc EXCEPT ![k] = first]
  /\ UNCHANGED <<reqVars, generated, result, exc, built, swap_args, postVars, collabVars,
                 rxVars>>

\* The start of a background procedure, up to its first collaborator call.
Begin(k, first) ==
  /\ running = 0
  /\ task[k] = "ready"
  /\ task' = [task EXCEPT ![k] = "running"]
  /\ running' = k
  /\ callback_url' = [callback_url EXCEPT ![k] = CallbackUrlOf(k)]
  /\ pc' = [pc EXCEPT ![k] = first]
  /\ UNCHANGED <<reqVars, generated, result, exc, built, swap_args, postVars, collabVars,
                 rxVars>>

\* `result = ...`: the end of the try block or of its except clause
Build(k, state, r, e) ==
  /\ pc' = [pc EXCEPT ![k] = state]
  /\ result' = [result EXCEPT ![k] = r]
  /\ exc' = [exc EXCEPT ![k] = e]
  /\ built' = [built EXCEPT ![k] = @ + 1]

\* process_test_image_and_callback, lines 62-69
TI_Begin(k) ==
  /\ endpoint[k] = TEST_IMAGE
  /\ Begin(k, "Generating")
  /\ gen_calls' = [gen_calls EXCEPT ![k] = @ + 1]
  /\ UNCHANGED swap_calls

\* The generation wrapped in a try of its own: its failure is noted and
\* the swap is called all the same, on an empty image.
TI_GenerateNoShortCircuit(k) ==
  /\ running = k
  /\ endpoint[k] = TEST_IMAGE
  /\ pc[k] = "Generating"
  /\ \E env \in IgInitOutcomes, gen \in GenOutcomes :
       LET r == generate_image_from_test(imagen_generator_instance, env, gen) IN
       /\ imagen_generator_instance' = r.obj
       /\ generated' = [generated EXCEPT ![k] = IF r.raised THEN BADB64 ELSE r.value]
       /\ exc' = [exc EXCEPT ![k] = IF r.raised THEN r.value ELSE None]
  /\ swap_calls' = [swap_calls EXCEPT ![k] = @ + 1]
  /\ pc' = [pc EXCEPT ![k] = "Swapping"]
  /\ UNCHANGED <<reqVars, task, running, callback_url, result, built, gen_calls, swap_args,
                 postVars, face_swapper_instance, rxVars>>

\* generate_image_from_test returns, and the swap is called; or it raises
TI_Generate(k) ==
  /\ running = k
  /\ endpoint[k] = TEST_IMAGE
  /\ pc[k] = "Generating"
  /\ \E env \in IgInitOutcomes, gen \in GenOutcomes :
       LET r == generate_image_from_test(imagen_generator_instance, env, gen) IN
       /\ imagen_generator_instance' = r.obj
       /\ IF r.raised
            THEN /\ Build(k, "Failed", TestImageFailed(k, r.value), r.value)
                 /\ UNCHANGED <<generated, swap_calls>>
            ELSE /\ generated' = [generated EXCEPT ![k] = r.value]
                 /\ swap_calls' = [swap_calls EXCEPT ![k] = @ + 1]
                 /\ pc' = [pc EXCEPT ![k] = "Swapping"]
                 /\ UNCHANGED <<result, exc, built>>
  /\ UNCHANGED <<reqVars, task, running, callback_url, gen_calls, swap_args, postVars,
                 face_swapper_instance, rxVars>>

\* face_swap_function returns or raises, and the Result is built
TI_Swap(k) ==
  /\ running = k
  /\ endpoint[k] = TEST_IMAGE
  /\ pc[k] = "Swapping"
  /\ \E env \in FsInitOutcomes :
       LET r == face_swap_function(face_swapper_instance, TI_SwapArgs(k).source,
                                   TI_SwapArgs(k).target, env) IN
       /\ face_swapper_instance' = r.obj
       /\ swap_args' = [swap_args EXCEPT ![k] = TI_SwapArgs(k)]
       /\ IF r.raised
            THEN Build(k, "Failed", TestImageFailed(k, r.value), r.value)
            ELSE Build(k, "Succeeded", TestImageSuccess(k, r.value), None)
  /\ UNCHANGED <<reqVars, task, running, callback_url, generated, gen_calls, swap_calls,
                 postVars, imagen_generator_instance, rxVars>>

\* process_face_swap_and_callback, lines 115-122
FS_Begin(k) ==
  /\ endpoint[k] = FACE_SWAP
  /\ Begin(k, "Swapping")
  /\ swap_calls' = [swap_calls EXCEPT ![k] = @ + 1]
  /\ UNCHANGED gen_calls

FS_Swap(k) ==
  /\ running = k
  /\ endpoint[k] = FACE_SWAP
  /\ pc[k] = "Swapping"
  /\ \E env \in FsInitOutcomes :
       LET r == face_swap_function(face_swapper_instance, FS_SwapArgs(k).source,
                                   FS_SwapArgs(k).target, env) IN
       /\ face_swapper_instance' = r.obj
       /\ swap_args' = [swap_args EXCEPT ![k] = FS_SwapArgs(k)]
       /\ IF r.raised
            THEN Build(k, "Failed", FaceSwapFailed(k, r.value), r.value)
            ELSE Build(k, "Succeeded", FaceSwapSuccess(k, r.value), None)
  /\ UNCHANGED <<reqVars, task, running, callback_url, generated, gen_calls, swap_calls,
                 postVars, imagen_generator_instance, rxVars>>

\* `await client.post(callback_url, json=result.model_dump())`: the request
\* goes out and the procedure gives the thread back to the loop
SendCallback(k) ==
  /\ running = k
  /\ pc[k] \in {"Succeeded", "Failed"}
  /\ post[k] = "none"
  /\ posts' = [posts EXCEPT ![k] = @ + 1]
  /\ posted' = [posted EXCEPT ![k] = [url |-> callback_url[k], json |-> result[k]]]
  /\ post' = [post EXCEPT ![k] = "inflight"]
  /\ running' = 0
  /\ UNCHANGED <<reqVars, task, jobVars, escaped, collabVars, rxVars>>

\* The state the procedure ends in: line 109 or 145 was printed after a
\* response, of whatever status code; line 111 or 147 after an exception.
AfterPost(o) == IF PostRaises(o) THEN "CallbackDeliveryFailed" ELSE "CallbackSent"

\* The procedure returns: its arguments and locals are dropped with its
\* frame, and the request it sent is no longer on the wire.
Release(k) ==
  /\ payload' = [payload EXCEPT ![k] = NoPayload]
  /\ callback_url' = [callback_url EXCEPT ![k] = None]
  /\ generated' = [generated EXCEPT ![k] = None]
  /\ result' = [result EXCEPT ![k] = NoResult]
  /\ exc' = [exc EXCEPT ![k] = None]
  /\ swap_args' = [swap_args EXCEPT ![k] = NoArgs]
  /\ posted' = [posted EXCEPT ![k] = NoPost]

\* The POST sent again after a failure.
CallbackDoneRetry(k) ==
  /\ running = 0
  /\ post[k] = "inflight"
  /\ \E o \in PostOutcomes :
       IF PostRaises(o)
         THEN /\ posts' = [posts EXCEPT ![k] = @ + 1]
              /\ UNCHANGED <<post, pc, task, payload, callback_url, generated, result, exc,
                             swap_args, posted>>
         ELSE /\ post' = [post EXCEPT ![k] = o]
              /\ pc' = [pc EXCEPT ![k] = AfterPost(o)]
              /\ task' = [task EXCEPT ![k] = "done"]
              /\ Release(k)
              /\ UNCHANGED posts
  /\ UNCHANGED <<http, endpoint, uuids, rid, returned, response, running, built, gen_calls,
                 swap_calls, escaped, collabVars, rxVars>>

\* The POST outside any try: its exception leaves the procedure.
CallbackDoneUncaught(k) ==
  /\ running = 0
  /\ post[k] = "inflight"
  /\ \E o \in PostOutcomes :
       /\ post' = [post EXCEPT ![k] = o]
       /\ pc' = [pc EXCEPT ![k] = IF PostRaises(o) THEN @ ELSE AfterPost(o)]
       /\ escaped' = IF PostRaises(o) THEN escaped \cup {k} ELSE escaped
  /\ task' = [task EXCEPT ![k] = "done"]
  /\ Release(k)
  /\ UNCHANGED <<http, endpoint, uuids, rid, returned, response, running, built, gen_calls,
                 swap_calls, posts, collabVars, rxVars>>

\* The POST ends and the procedure resumes, prints and returns.
CallbackDone(k) ==
  /\ running = 0
  /\ post[k] = "inflight"
  /\ \E o \in PostOutcomes :
       /\ post' = [post EXCEPT ![k] = o]
       /\ pc' = [pc EXCEPT ![k] = AfterPost(o)]
  /\ task' = [task EXCEPT ![k] = "done"]
  /\ Release(k)
  /\ UNCHANGED <<http, endpoint, uuids, rid, returned, response, running, built, gen_calls,
                 swap_calls, posts, escaped, collabVars, rxVars>>

TI_SendCallback(k) == endpoint[k] = TEST_IMAGE /\ SendCallback(k)
TI_CallbackDone(k) == endpoint[k] = TEST_IMAGE /\ CallbackDone(k)
FS_SendCallback(k) == endpoint[k] = FACE_SWAP /\ SendCallback(k)
FS_CallbackDone(k) == endpoint[k] = FACE_SWAP /\ CallbackDone(k)

NextOrch ==
  \E k \in Jobs :
    \/ Arrive(k)
    \/ process_test_image(k)
    \/ process_face_swap_endpoint(k)
    \/ SendResponse(k)
    \/ TI_Begin(k)
    \/ TI_Generate(k)
    \/ TI_Swap(k)
    \/ TI_SendCallback(k)
    \/ TI_CallbackDone(k)
    \/ FS_Begin(k)
    \/ FS_Swap(k)
    \/ FS_SendCallback(k)
    \/ FS_CallbackDone(k)

---------------------------------------------------------------------------
(* callback_api.py: the Callback Receiver                                  *)

Paths == {"/callback/test-image", "/callback/face-swap", "/direct", "/callback",
          "/face-swap", "/test"}

NoBody == [none |-> TRUE]
NoReply == [code |-> 0]

\* Bodies a client can send: Results of both shapes, and swap requests.
RxTestImageResults ==
  {TestImageResult(st, g, sw, id, e) :
     st \in {"success", "failed", "processing"}, g \in {"", GEN_FACE},
     sw \in {"", "SWAP_ON_GEN"}, id \in {NoId, 1}, e \in {None, E_TGT_NOFACE}}
RxFaceSwapResults ==
  {FaceSwapResult(st, sw, id, e) :
     st \in {"success", "failed", "processing"}, sw \in {"", "SWAP_ON_TARGET"},
     id \in {NoId, 1}, e \in {None, E_TGT_NOFACE}}
RxFaceSwapRequests ==
  {[source_image_base64 |-> p[1], target_image_base64 |-> p[2]] : p \in SwapPairs}
RxBodies == RxTestImageResults \cup RxFaceSwapResults \cup RxFaceSwapRequests

\* pydantic: a field of the body, or the model's default when it is absent
Field(body, name, default) == IF name \in DOMAIN body THEN body[name] ELSE default

\* The body parsed as the receiver's FaceSwapResult (status is required,
\* fields the model does not have are ignored)
ValidFaceSwapResult(body) == "status" \in DOMAIN body
AsFaceSwapResult(body) ==
  FaceSwapResult(body.status, Field(body, "swapped_image_base64", ""),
                 Field(body, "request_id", NoId), Field(body, "error", None))

\* The body parsed as the receiver's TestImageResult
ValidTestImageResult(body) == "status" \in DOMAIN body
AsTestImageResult(body) ==
  TestImageResult(body.status, Field(body, "generated_image_base64", ""),
                  Field(body, "swapped_image_base64", ""),
                  Field(body, "request_id", NoId), Field(body, "error", None))

\* The body parsed as the receiver's FaceSwapRequest (both images required)
ValidFaceSwapRequest(body) ==
  {"source_image_base64", "target_image_base64"} \subseteq DOMAIN body

Ok(json) == [code |-> 200, json |-> json]
\* the framework's answer to a body that does not fit the declared model
Unprocessable == [code |-> 422]

M_RX_TEST_IMAGE == "Test image callback received"
M_RX_FACE_SWAP == "Face swap callback received"

\* receive_test_image_callback
receive_test_image_callback(r) ==
  IF r.status = "success" /\ r.swapped_image_base64 /= ""
    THEN [message |-> M_RX_TEST_IMAGE, status |-> r.status,
          generated_image_base64 |-> r.generated_image_base64,
          swapped_image_base64 |-> r.swapped_image_base64, request_id |-> r.request_id]
  ELSE IF r.status = "failed"
    THEN [message |-> M_RX_TEST_IMAGE, status |-> r.status, error |-> r.error,
          request_id |-> r.request_id]
  ELSE [message |-> M_RX_TEST_IMAGE, status |-> r.status, request_id |-> r.request_id]

\* The handler branching on the status alone: every success reply carries
\* the image field, empty or not.
receive_face_swap_callback_by_status(r) ==
  IF r.status = "success"
    THEN [message |-> M_RX_FACE_SWAP, status |-> r.status,
          swapped_image_base64 |-> r.swapped_image_base64, request_id |-> r.request_id]
  ELSE IF r.status = "failed"
    THEN [message |-> M_RX_FACE_SWAP, status |-> r.status, error |-> r.error,
          request_id |-> r.request_id]
  ELSE [message |-> M_RX_FACE_SWAP, status |-> r.status, request_id |-> r.request_id]

\* receive_face_swap_callback
receive_face_swap_callback(r) ==
  IF r.status = "success" /\ r.swapped_image_base64 /= ""
    THEN [message |-> M_RX_FACE_SWAP, status |-> r.status,
          swapped_image_base64 |-> r.swapped_image_base64, request_id |-> r.request_id]
  ELSE IF r.status = "failed"
    THEN [message |-> M_RX_FACE_SWAP, status |-> r.status, error |-> r.error,
          request_id |-> r.request_id]
  ELSE [message |-> M_RX_FACE_SWAP, status |-> r.status, request_id |-> r.request_id]

\* direct_face_swap: the swap is done in the request, on the receiver's own
\* processor; the pair is the processor afterwards and the JSON returned
direct_face_swap(self, request, env) ==
  LET r == face_swap_function(self, request.source_image_base64,
                              request.target_image_base64, env) IN
  [obj |-> r.obj,
   json |-> IF r.raised
              THEN [status |-> "failed", error |-> r.value, message |-> "Face swap failed"]
              ELSE [status |-> "success", swapped_image_base64 |-> r.value,
                    message |-> "Face swap completed successfully"]]

\* /test answered by the test-image handler
test_compat_as_test_image(r) == receive_test_image_callback(AsTestImageResult(r))

\* callback_compat, test_compat, face_swap_compat: what each delegates to
callback_compat(r) == receive_face_swap_callback(r)
test_compat(r) == receive_face_swap_callback(r)
face_swap_compat(self, request, env) == direct_face_swap(self, request, env)

\* A POST of rx_body to a path that takes a Result
Reply(path, valid, json) ==
  /\ rx_body /= NoBody
  /\ rx_reply[path] = NoReply
  /\ rx_reply' = [rx_reply EXCEPT ![path] = IF valid THEN Ok(json) ELSE Unprocessable]
  /\ UNCHANGED <<rx_body, rx_face_swapper, orchVars>>

\* A POST of rx_body to a path that takes a swap request
ReplySwap(path, r) ==
  /\ rx_body /= NoBody
  /\ rx_reply[path] = NoReply
  /\ IF ValidFaceSwapRequest(rx_body)
       THEN /\ rx_reply' = [rx_reply EXCEPT ![path] = Ok(r.json)]
            /\ rx_face_swapper' = r.obj
       ELSE /\ rx_reply' = [rx_reply EXCEPT ![path] = Unprocessable]
            /\ UNCHANGED rx_face_swapper
  /\ UNCHANGED <<rx_body, orchVars>>

Rx_callback_test_image ==
  Reply("/callback/test-image", ValidTestImageResult(rx_body),
        receive_test_image_callback(AsTestImageResult(rx_body)))

Rx_callback_face_swap ==
  Reply("/callback/face-swap", ValidFaceSwapResult(rx_body),
        receive_face_swap_callback(AsFaceSwapResult(rx_body)))

Rx_callback ==
  Reply("/callback", ValidFaceSwapResult(rx_body), callback_compat(AsFaceSwapResult(rx_body)))

Rx_test ==
  Reply("/test", ValidFaceSwapResult(rx_body), test_compat(AsFaceSwapResult(rx_body)))

Rx_direct ==
  \E env \in FsInitOutcomes :
    ReplySwap("/direct", direct_face_swap(rx_face_swapper, rx_body, env))

Rx_face_swap ==
  \E env \in FsInitOutcomes :
    ReplySwap("/face-swap", face_swap_compat(rx_face_swapper, rx_body, env))

NextRx ==
  \/ Rx_callback_test_image
  \/ Rx_callback_face_swap
  \/ Rx_callback
  \/ Rx_test
  \/ Rx_direct
  \/ Rx_face_swap

---------------------------------------------------------------------------
(* Specifications                                                          *)

vars == <<orchVars, rxVars>>

\* The orchestrator process: nothing is sent to the receiver's paths.
Init ==
  /\ InitOrch
  /\ rx_body = NoBody
  /\ rx_reply = [p \in Paths |-> NoReply]
  /\ rx_face_swapper = FaceSwapProcessor

Next == NextOrch

Spec == Init /\ [][Next]_vars

\* The receiver process: one body, POSTed to its paths in any order.
InitReceiver ==
  /\ InitOrch
  /\ rx_body \in RxBodies
  /\ rx_reply = [p \in Paths |-> NoReply]
  /\ rx_face_swapper = FaceSwapProcessor

NextReceiver == NextRx

SpecReceiver == InitReceiver /\ [][NextReceiver]_vars

\* The steps of Job k's background procedure.
JobStep(k) ==
  \/ TI_Begin(k) \/ TI_Generate(k) \/ TI_Swap(k) \/ TI_SendCallback(k) \/ TI_CallbackDone(k)
  \/ FS_Begin(k) \/ FS_Swap(k) \/ FS_SendCallback(k) \/ FS_CallbackDone(k)

\* The orchestrator when the loop runs every task that is ready, and every
\* collaborator call and every POST returns or raises: the loop's ready
\* queue is first-in first-out, and the POST has timeout=30.0.
Fairness == \A k \in Jobs : WF_vars(JobStep(k))

SpecLive == Init /\ [][Next]_vars /\ Fairness

---------------------------------------------------------------------------
(* Properties of the orchestrator                                          *)

Done(k) == pc[k] \in {"CallbackSent", "CallbackDeliveryFailed"}
InFlight(k) == post[k] = "inflight"
GenerationErrors == {E_IG_INIT, E_GENERATION}

\* C1: a Job has at most one Result built and at most one POST made for it,
\* a POST is made only for a built Result and carries it, the request_id in
\* the POSTed body is the one the submission's response gave, and a Job
\* that has ended has exactly one Result and exactly one POST.
C1_OneResultOneCallback ==
  \A k \in Jobs :
    /\ built[k] <= 1
    /\ posts[k] <= 1
    /\ posts[k] = 1 => built[k] = 1
    /\ pc[k] \in {"Succeeded", "Failed"} => built[k] = 1
    /\ InFlight(k) =>
         /\ posts[k] = 1
         /\ posted[k].json = result[k]
         /\ response[k].request_id /= NoId
         /\ posted[k].json.request_id = response[k].request_id
    /\ Done(k) => built[k] = 1 /\ posts[k] = 1

\* C1 witness: one Job has ended after its single POST failed, and the
\* other's POST is on its way with the id its submitter was given.
C1_Witness ==
  \E i, k \in Jobs :
    /\ pc[i] = "CallbackDeliveryFailed" /\ posts[i] = 1 /\ built[i] = 1
    /\ endpoint[k] = TEST_IMAGE /\ InFlight(k)
    /\ posted[k].json.request_id = response[k].request_id

\* C2: a background task runs only after its submission's response has been
\* sent, and the response is the acknowledgement of the endpoint with the
\* Job's request_id, whatever state the Job is in.
C2_ResponseBeforeExecution ==
  \A k \in Jobs :
    /\ task[k] \in {"running", "done"} => http[k] = "responded"
    /\ pc[k] \notin {"none", "Received"} => http[k] = "responded"
    /\ http[k] = "responded" =>
         response[k] = [message |-> IF endpoint[k] = TEST_IMAGE THEN M_TEST_IMAGE
                                    ELSE M_FACE_SWAP,
                        request_id |-> rid[k]]

\* C2 witness: a Job has Failed and its submitter holds the acknowledgement.
C2_Witness ==
  \E k \in Jobs :
    /\ pc[k] = "Failed"
    /\ exc[k] = E_GENERATION
    /\ response[k] = [message |-> M_TEST_IMAGE, request_id |-> rid[k]]

\* C3: a submission that has arrived never waits for a collaborator: its
\* endpoint function can run at once, whatever the other Jobs are doing.
C3_SubmitNeverWaits ==
  \A k \in Jobs :
    http[k] = "arrived" =>
      ENABLED (process_test_image(k) \/ process_face_swap_endpoint(k))

\* C4: after a failed generation the swap is never called for the Job, its
\* Result is Failed, and the callback is made with that Result.
C4_GenerationFailureSkipsSwap ==
  \A k \in Jobs :
    exc[k] \in GenerationErrors =>
      /\ swap_calls[k] = 0
      /\ pc[k] = "Failed"
      /\ result[k].status = "failed"
      /\ post[k] = "none" => ENABLED TI_SendCallback(k)
      /\ InFlight(k) => posted[k].json = result[k]

\* C4 witness: the callback of a Job whose generation failed is on its way.
C4_Witness ==
  \E k \in Jobs :
    /\ exc[k] = E_GENERATION
    /\ gen_calls[k] = 1 /\ swap_calls[k] = 0
    /\ InFlight(k) /\ posted[k].json.status = "failed"

\* C5: when a collaborator call raised, the Result built and delivered has
\* status "failed", the raised message as its error, and empty image
\* fields, the generated image included.
C5_FailedResult ==
  \A k \in Jobs :
    exc[k] /= None =>
      /\ result[k].status = "failed"
      /\ result[k].error = exc[k]
      /\ result[k].swapped_image_base64 = ""
      /\ endpoint[k] = TEST_IMAGE => result[k].generated_image_base64 = ""
      /\ InFlight(k) => posted[k].json = result[k]

\* C5 witness: generation succeeded, the swap then found no face in the
\* generated image, and the Result without images is on its way.
C5_Witness ==
  \E k \in Jobs :
    /\ generated[k] = GEN_NOFACE
    /\ exc[k] = E_TGT_NOFACE
    /\ InFlight(k)
    /\ posted[k].json.generated_image_base64 = ""

\* C6: a POST that ended in a network error, a timeout or a non-2xx
\* response leaves the Job in CallbackDeliveryFailed, and is not repeated.
C6_NonDeliveryIsFailure ==
  \A k \in Jobs :
    /\ post[k] \in {"network_error", "timeout", "non2xx"} => pc[k] = "CallbackDeliveryFailed"
    /\ posts[k] <= 1

\* C7: no exception leaves a background task; a Job whose POST raised has
\* ended with its one Result and one POST; and with such a Job in the
\* process every other submission is still accepted when the loop is idle,
\* started when ready, and ends with its own Result and POST.
C7_DeliveryFailureContained ==
  /\ escaped = {}
  /\ \A i \in Jobs :
       PostRaises(post[i]) =>
         /\ pc[i] = "CallbackDeliveryFailed" /\ task[i] = "done"
         /\ built[i] = 1 /\ posts[i] = 1
         /\ \A k \in Jobs \ {i} :
              /\ (http[k] = "arrived" /\ running = 0) =>
                   ENABLED (process_test_image(k) \/ process_face_swap_endpoint(k))
              /\ (task[k] = "ready" /\ running = 0) => ENABLED (TI_Begin(k) \/ FS_Begin(k))
              /\ InFlight(k) => posted[k].json.request_id = rid[k]
              /\ Done(k) => built[k] = 1 /\ posts[k] = 1

\* C7 witness: a Job's callback address was unreachable, and a Job that was
\* given its id later has had its callback delivered.
C7_Witness ==
  \E i, k \in Jobs :
    /\ post[i] = "network_error" /\ pc[i] = "CallbackDeliveryFailed"
    /\ rid[k] > rid[i]
    /\ pc[k] = "CallbackSent" /\ post[k] = "2xx"

\* C8: a built Result has status "success" or "failed"; a success carries
\* a swapped image and no error, with a generated image exactly when the
\* Job is GenerateThenSwap; and the POSTed body is that Result.
C8_ResultShape ==
  \A k \in Jobs :
    built[k] = 1 /\ ~Done(k) =>
      /\ result[k].status \in {"success", "failed"}
      /\ result[k].status = "success" =>
           /\ result[k].swapped_image_base64 \notin {"", None}
           /\ result[k].error = None
           /\ endpoint[k] = TEST_IMAGE =>
                result[k].generated_image_base64 \in {GEN_FACE, GEN_NOFACE}
           /\ endpoint[k] = FACE_SWAP =>
                "generated_image_base64" \notin DOMAIN result[k]
      /\ InFlight(k) => posted[k].json = result[k]

\* C8 witness: a success Result of each kind is on its way.
C8_Witness ==
  \E i, k \in Jobs :
    /\ endpoint[i] = FACE_SWAP /\ InFlight(i) /\ posted[i].json.status = "success"
    /\ endpoint[k] = TEST_IMAGE /\ InFlight(k) /\ posted[k].json.status = "success"

\* C9 as stated: the POST goes to the request's callback_url whenever the
\* request has one, and to CALLBACK_API_URL only when it has none.
C9_SuppliedUrlAlwaysUsed ==
  \A k \in Jobs :
    InFlight(k) =>
      posted[k].url = IF payload[k].callback_url /= None THEN payload[k].callback_url
                      ELSE CALLBACK_API_URL

\* C9 amended: the POST goes to the request's callback_url when that is a
\* non-empty string, and to CALLBACK_API_URL when the request has none or
\* has the empty string; it never goes to what only another Job supplied.
C9_CallbackAddress ==
  \A k \in Jobs :
    InFlight(k) =>
      /\ payload[k].callback_url \in CallerUrls => posted[k].url = payload[k].callback_url
      /\ payload[k].callback_url \in {None, ""} => posted[k].url = CALLBACK_API_URL
      /\ posted[k].url \in {payload[k].callback_url, CALLBACK_API_URL}

\* C9 witness: a Job that supplied "" is POSTed to the default while another
\* Job is POSTed to the URL it supplied.
C9_Witness ==
  \E i, k \in Jobs :
    /\ InFlight(i) /\ payload[i].callback_url = "" /\ posted[i].url = CALLBACK_API_URL
    /\ InFlight(k) /\ payload[k].callback_url \in CallerUrls
    /\ posted[k].url = payload[k].callback_url

---------------------------------------------------------------------------
(* Properties of the Callback Receiver                                     *)

IsResultBody(body) == body \in RxTestImageResults \cup RxFaceSwapResults
Replied(p) == rx_reply[p] /= NoReply

\* C10 as stated: every one of the six paths accepts a Result body, and any
\* two of them give the same reply to the same Result.
C10_AllPathsSameAcknowledgement ==
  IsResultBody(rx_body) =>
    \A p, q \in Paths :
      (Replied(p) /\ Replied(q)) => (rx_reply[p].code = 200 /\ rx_reply[p] = rx_reply[q])

\* C10 amended: /callback and /test accept every Result body and give the
\* reply /callback/face-swap gives to it; /callback/test-image accepts it
\* and answers with its own message; /direct and /face-swap take a swap
\* request and both refuse a Result body.
C10_AliasesOfFaceSwapCallback ==
  IsResultBody(rx_body) =>
    /\ \A p \in {"/callback", "/test", "/callback/face-swap"} :
         Replied(p) =>
           /\ rx_reply[p].code = 200
           /\ Replied("/callback/face-swap") => rx_reply[p] = rx_reply["/callback/face-swap"]
           /\ rx_reply[p].json.message = M_RX_FACE_SWAP
           /\ rx_reply[p].json.status = rx_body.status
    /\ Replied("/callback/test-image") =>
         /\ rx_reply["/callback/test-image"].code = 200
         /\ rx_reply["/callback/test-image"].json.message = M_RX_TEST_IMAGE
    /\ \A p \in {"/direct", "/face-swap"} : Replied(p) => rx_reply[p] = Unprocessable

\* C10 witness: a success Result with both images has been POSTed to all
\* six paths.
C10_Witness ==
  /\ rx_body = TestImageResult("success", GEN_FACE, "SWAP_ON_GEN", 1, None)
  /\ \A p \in Paths : Replied(p)
  /\ rx_reply["/test"] = rx_reply["/callback/face-swap"]
  /\ rx_reply["/callback"] = rx_reply["/callback/face-swap"]
  /\ rx_reply["/direct"].code = 422

ResultPaths == {"/callback/face-swap", "/callback/test-image"}
Ack(p) == rx_reply[p].json
Carries(json, name, value) == name \in DOMAIN json /\ json[name] = value

\* C11 as stated: the acknowledgement of /callback/face-swap and of
\* /callback/test-image to a Result echoes its status and request_id; to a
\* "failed" Result it carries the error, and to a "success" Result it
\* carries the swapped image (and on /callback/test-image the generated one).
C11_SuccessAlwaysCarriesImages ==
  IsResultBody(rx_body) =>
    \A p \in ResultPaths :
      Replied(p) =>
        /\ rx_reply[p].code = 200
        /\ Carries(Ack(p), "status", rx_body.status)
        /\ Carries(Ack(p), "request_id", rx_body.request_id)
        /\ rx_body.status = "failed" => Carries(Ack(p), "error", rx_body.error)
        /\ rx_body.status = "success" =>
             /\ Carries(Ack(p), "swapped_image_base64", rx_body.swapped_image_base64)
             /\ p = "/callback/test-image" =>
                  Carries(Ack(p), "generated_image_base64",
                          Field(rx_body, "generated_image_base64", ""))

\* C11 amended: the acknowledgement echoes status and request_id; to a
\* "failed" Result it carries the error and nothing else; to a "success"
\* Result whose swapped image is not empty it carries that image (and on
\* /callback/test-image the generated one, "" when the body has none); to
\* any other Result, a "success" with an empty swapped image included, it
\* carries the message, the status and the request_id only.
C11_AcknowledgementEchoesResult ==
  IsResultBody(rx_body) =>
    \A p \in ResultPaths :
      Replied(p) =>
        /\ rx_reply[p].code = 200
        /\ Carries(Ack(p), "status", rx_body.status)
        /\ Carries(Ack(p), "request_id", rx_body.request_id)
        /\ Carries(Ack(p), "message",
                   IF p = "/callback/test-image" THEN M_RX_TEST_IMAGE ELSE M_RX_FACE_SWAP)
        /\ IF rx_body.status = "success" /\ rx_body.swapped_image_base64 /= ""
             THEN /\ Carries(Ack(p), "swapped_image_base64", rx_body.swapped_image_base64)
                  /\ p = "/callback/test-image" =>
                       Carries(Ack(p), "generated_image_base64",
                               Field(rx_body, "generated_image_base64", ""))
                  /\ DOMAIN Ack(p) =
                       {"message", "status", "request_id", "swapped_image_base64"} \cup
                       (IF p = "/callback/test-image" THEN {"generated_image_base64"} ELSE {})
           ELSE IF rx_body.status = "failed"
             THEN /\ Carries(Ack(p), "error", rx_body.error)
                  /\ DOMAIN Ack(p) = {"message", "status", "request_id", "error"}
           ELSE DOMAIN Ack(p) = {"message", "status", "request_id"}

\* C11 witness: a "success" Result without a swapped image has been
\* acknowledged by both paths, and neither reply has an image field.
C11_Witness ==
  /\ rx_body = TestImageResult("success", GEN_FACE, "", 1, None)
  /\ \A p \in ResultPaths :
       Replied(p) /\ Ack(p).status = "success" /\ Ack(p).request_id = 1
                  /\ "swapped_image_base64" \notin DOMAIN Ack(p)

---------------------------------------------------------------------------
(* Properties of the orchestrator: order, progress, sharing                *)

\* C12: the steps of a Job follow one another: while generation runs no
\* swap has been called and no Result built; the swap of a GenerateThenSwap
\* Job is called only once generation has returned an image, with the
\* request's source face image as source and that image as target; the
\* success Result carries that same image as generated_image_base64; and a
\* POST is made only for a Result already built, and carries it.
C12_StepsInOrder ==
  \A k \in Jobs :
    /\ pc[k] = "Generating" =>
         /\ gen_calls[k] = 1 /\ generated[k] = None
         /\ swap_calls[k] = 0 /\ built[k] = 0 /\ posts[k] = 0
    /\ pc[k] = "Swapping" => built[k] = 0 /\ posts[k] = 0 /\ swap_args[k] = NoArgs
    /\ (endpoint[k] = TEST_IMAGE /\ swap_calls[k] >= 1) =>
         /\ swap_calls[k] = 1 /\ gen_calls[k] = 1
         /\ ~Done(k) => generated[k] \in {GEN_FACE, GEN_NOFACE}
    /\ (endpoint[k] = TEST_IMAGE /\ swap_args[k] /= NoArgs) =>
         /\ swap_args[k].source = payload[k].source_face_image_base64
         /\ swap_args[k].target = generated[k]
         /\ result[k].status = "success" =>
              /\ result[k].generated_image_base64 = swap_args[k].target
              /\ result[k].swapped_image_base64 =
                   Swapped(swap_args[k].source, swap_args[k].target)
    /\ (endpoint[k] = FACE_SWAP /\ swap_args[k] /= NoArgs) =>
         /\ swap_args[k].source = payload[k].source_image_base64
         /\ swap_args[k].target = payload[k].target_image_base64
    /\ posts[k] >= 1 => built[k] = 1
    /\ InFlight(k) => result[k] /= NoResult /\ posted[k].json = result[k]

\* C12 witness: a GenerateThenSwap Job whose source face differs from the
\* image generated for it has its success Result on its way, while the
\* other Job, of the same kind, is still inside generation.
C12_Witness ==
  \E i, k \in Jobs :
    /\ endpoint[k] = TEST_IMAGE /\ InFlight(k)
    /\ swap_args[k] = [source |-> FACE, target |-> GEN_FACE]
    /\ posted[k].json.status = "success"
    /\ posted[k].json.generated_image_base64 = GEN_FACE
    /\ pc[i] = "Generating"

Unfinished == {"Dispatched", "Generating", "Swapping", "Succeeded", "Failed"}

\* C13: when every collaborator call and every POST returns or raises, a
\* Job that is Dispatched, Generating, Swapping, Succeeded or Failed
\* eventually is CallbackSent or CallbackDeliveryFailed, whatever the other
\* Jobs do.
C13_EveryJobEnds == \A k \in Jobs : (pc[k] \in Unfinished) ~> Done(k)

\* C13 witness: every Job has ended, one of each kind, one of them after
\* its POST timed out.
C13_Witness ==
  /\ \A k \in Jobs : Done(k) /\ task[k] = "done"
  /\ \E i, k \in Jobs :
       /\ endpoint[i] = TEST_IMAGE /\ endpoint[k] = FACE_SWAP
       /\ post[i] = "timeout" /\ pc[i] = "CallbackDeliveryFailed"

\* Nothing has used the collaborator yet: no generate call was made, no
\* swap call has returned or raised.
GenerationUnused == \A k \in Jobs : gen_calls[k] = 0
VisionUnused == \A k \in Jobs : swap_calls[k] = 0 \/ pc[k] = "Swapping"

\* Initialization is not run at construction or at submission.
LazyInit ==
  /\ GenerationUnused => imagen_generator_instance = ImagenGenerator
  /\ VisionUnused => face_swapper_instance = FaceSwapProcessor

\* C14 as stated: initialization is not run before a Job uses the
\* collaborator, and the initialization routine of each collaborator is
\* executed at most once.
C14_InitAtMostOnce ==
  /\ LazyInit
  /\ face_swapper_instance.inits <= 1
  /\ imagen_generator_instance.inits <= 1

\* A step runs each initialization routine at most once, and leaves a
\* collaborator that is initialized as it is.
InitOnlyWhileUninitialized ==
  /\ face_swapper_instance.inits' \in
       {face_swapper_instance.inits, face_swapper_instance.inits + 1}
  /\ imagen_generator_instance.inits' \in
       {imagen_generator_instance.inits, imagen_generator_instance.inits + 1}
  /\ face_swapper_instance.is_initialized =>
       face_swapper_instance' = face_swapper_instance
  /\ imagen_generator_instance.is_initialized =>
       imagen_generator_instance' = imagen_generator_instance

\* C14 amended: initialization is not run before a Job uses the
\* collaborator; a step runs the routine of a collaborator at most once,
\* and only while the collaborator is not initialized; and a collaborator
\* that is initialized is never initialized again.
C14_InitOnceSucceeded == [](LazyInit) /\ [][InitOnlyWhileUninitialized]_vars

\* C14 witness: the vision models were loaded at the second attempt, and a
\* Job has since had its swap done without another load.
C14_Witness ==
  /\ face_swapper_instance.is_initialized
  /\ face_swapper_instance.inits = 2
  /\ \A k \in Jobs : swap_calls[k] = 1 /\ built[k] = 1
  /\ \E k \in Jobs : InFlight(k) /\ posted[k].json.status = "success"

\* What belongs to Job k alone: its inputs, the outcomes of its collaborator
\* calls, and what its procedure made of them.
Inputs(k) == <<endpoint[k], payload[k]>>
Outcomes(k) == <<generated[k], swap_args[k], exc[k]>>
Made(k) == <<callback_url[k], result[k], posted[k]>>
Anonymous(r) == [r EXCEPT !.request_id = NoId]
Built(k) == built[k] = 1 /\ ~Done(k)

\* The Result and the callback address of Job k follow from its own inputs
\* and outcomes.
OwnResult(k) ==
  /\ result[k].request_id = rid[k]
  /\ result[k].status = (IF exc[k] = None THEN "success" ELSE "failed")
  /\ result[k].error = exc[k]
  /\ result[k].swapped_image_base64 =
       (IF exc[k] = None THEN Swapped(swap_args[k].source, swap_args[k].target) ELSE "")
  /\ endpoint[k] = TEST_IMAGE =>
       result[k].generated_image_base64 = (IF exc[k] = None THEN generated[k] ELSE "")
  /\ callback_url[k] \in {payload[k].callback_url, CALLBACK_API_URL}
  /\ InFlight(k) => posted[k] = [url |-> callback_url[k], json |-> result[k]]

\* Two Jobs with the same inputs and the same outcomes have the same
\* Result, but for the request_id, and the same callback address, whatever
\* happened in the process before each of them ran.
SameResult(i, k) ==
  (Inputs(i) = Inputs(k) /\ Outcomes(i) = Outcomes(k)) =>
    /\ Anonymous(result[i]) = Anonymous(result[k])
    /\ callback_url[i] = callback_url[k]

\* A step that moves Job i leaves what belongs to another Job as it was.
OthersUntouched ==
  \A i, k \in Jobs :
    (i /= k /\ <<http[i], pc[i], post[i]>>' /= <<http[i], pc[i], post[i]>>) =>
      /\ <<Inputs(k), Outcomes(k), Made(k)>>' = <<Inputs(k), Outcomes(k), Made(k)>>
      /\ <<rid[k], pc[k], post[k]>>' = <<rid[k], pc[k], post[k]>>

\* C15: with several Jobs in flight, the Result of each Job and its
\* callback address follow from its own inputs and the outcomes of its own
\* collaborator calls, Jobs with equal inputs and outcomes get equal
\* Results, and no step of one Job (its failure, its Result, the end of its
\* POST) changes the Result, the address or the POST of another.
C15_JobsIndependent ==
  /\ [](\A k \in Jobs : Built(k) => OwnResult(k))
  /\ [](\A i, k \in Jobs : (Built(i) /\ Built(k)) => SameResult(i, k))
  /\ [][OthersUntouched]_vars

\* C15 witness: two Jobs with the same request, one Failed because the
\* vision models could not be loaded for it, the other with a success
\* Result built after its own load of them succeeded.
C15_Witness ==
  \E i, k \in Jobs :
    /\ Inputs(i) = Inputs(k) /\ endpoint[i] = FACE_SWAP
    /\ InFlight(i) /\ posted[i].json.error = E_FS_MODEL
    /\ pc[k] = "Succeeded" /\ result[k].status = "success"
    /\ result[k].request_id = rid[k] /\ rid[k] /= rid[i]

InCall(k) == pc[k] \in {"Generating", "Swapping"}
Started(k) == task[k] = "running"
Handling(k) == <<returned[k], response[k], task[k], pc[k], post[k]>>

\* While a Job holds the loop's thread, a step is a step of that Job:
\* nothing is handled or moved for any other.
NoStepBesideTheRunningJob ==
  running /= 0 => \A i \in Jobs \ {running} : Handling(i)' = Handling(i)

\* C16: at most one Job is inside a collaborator call; a started Job holds
\* the loop's thread from its start until its POST is sent, and while it
\* does no other Job and no request is handled; so of two started Jobs at
\* least one is waiting for its POST to end.
C16_OneJobAtATime ==
  /\ [](Cardinality({k \in Jobs : InCall(k)}) <= 1)
  /\ [](\A k \in Jobs : (Started(k) /\ ~InFlight(k)) <=> running = k)
  /\ [](\A i, k \in Jobs : (i /= k /\ Started(i) /\ Started(k)) => InFlight(i) \/ InFlight(k))
  /\ [][NoStepBesideTheRunningJob]_vars

\* C16 witness: a Job is inside its swap call while another, started before
\* it, waits for its POST to end.
C16_Witness ==
  \E i, k \in Jobs :
    /\ Started(i) /\ InFlight(i)
    /\ Started(k) /\ pc[k] = "Swapping" /\ running = k
    /\ rid[i] < rid[k]

FsInitErrors == {E_FS_ANALYSIS, E_FS_MODEL}

\* A collaborator that says it is initialized has its handles.
HandlesSet ==
  /\ face_swapper_instance.is_initialized =>
       face_swapper_instance.app /\ face_swapper_instance.swapper
  /\ imagen_generator_instance.is_initialized => imagen_generator_instance.generation_model

\* A call that got past the initialization ran on handles that were set.
RanOnHandles(k) ==
  /\ (swap_args[k] /= NoArgs /\ exc[k] \notin FsInitErrors) =>
       face_swapper_instance.app /\ face_swapper_instance.swapper
  /\ (generated[k] /= None \/ exc[k] = E_GENERATION) =>
       imagen_generator_instance.generation_model

\* An initialization raised for Job k in this step.
FsInitRaised(k) == exc[k] = None /\ exc'[k] \in FsInitErrors
IgInitRaised(k) == exc[k] = None /\ exc'[k] = E_IG_INIT

\* A call of the collaborator ended for Job k in this step.
SwapEnded(k) == pc[k] = "Swapping" /\ pc'[k] /= "Swapping"
GenerateEnded(k) == pc[k] = "Generating" /\ pc'[k] /= "Generating"

\* The flag stays false when the initialization raises, the Job it was run
\* for is Failed with the message raised, and a call made while the flag
\* is false runs the initialization.
FailedInitIsRetried ==
  \A k \in Jobs :
    /\ FsInitRaised(k) =>
         /\ ~face_swapper_instance.is_initialized'
         /\ pc'[k] = "Failed" /\ result'[k].status = "failed"
         /\ result'[k].error = exc'[k]
    /\ IgInitRaised(k) =>
         /\ ~imagen_generator_instance.is_initialized'
         /\ pc'[k] = "Failed" /\ result'[k].status = "failed"
         /\ result'[k].error = exc'[k]
    /\ (SwapEnded(k) /\ ~face_swapper_instance.is_initialized) =>
         face_swapper_instance.inits' = face_swapper_instance.inits + 1
    /\ (GenerateEnded(k) /\ ~imagen_generator_instance.is_initialized) =>
         imagen_generator_instance.inits' = imagen_generator_instance.inits + 1

\* C17: a collaborator whose is_initialized is true has its handles set,
\* and every swap or generate that ran did so on set handles; an
\* initialization that raises leaves is_initialized false and the Job
\* Failed, and the next call of the collaborator initializes it again.
C17_InitializedMeansHandles ==
  /\ [](HandlesSet)
  /\ [](\A k \in Jobs : RanOnHandles(k))
  /\ [][FailedInitIsRetried]_vars

\* C17 witness: the face analysis could not be prepared for one Job, whose
\* Failed Result is on its way; the next Job ran the initialization again,
\* and its swap was done on the handles set by it.
C17_Witness ==
  \E i, k \in Jobs :
    /\ endpoint[i] = TEST_IMAGE /\ InFlight(i) /\ posted[i].json.error = E_FS_ANALYSIS
    /\ pc[k] = "Succeeded" /\ swap_args[k] /= NoArgs
    /\ face_swapper_instance =
         [app |-> TRUE, swapper |-> TRUE, is_initialized |-> TRUE, inits |-> 2]

===========================================================================
